---- MODULE Spec2Model ----
(***************************************************************************)
(* A model of server.py: three pony.orm entities (Person, Group,          *)
(* AddressBook) behind the generic OhMyRestRouter, the two query          *)
(* endpoints and error_middleware.                                        *)
(*                                                                        *)
(* Strings are run-length encoded: a string is a sequence of runs         *)
(* [c |-> character, n |-> repetitions], adjacent runs having different   *)
(* characters, so that equal strings have equal encodings and a string of *)
(* 256 characters is one run.  Attribute names and URL path segments are  *)
(* sequences of lower-case words joined by "_": address_books is          *)
(* <<"address", "books">>.                                                *)
(***************************************************************************)
EXTENDS Integers, Sequences, FiniteSets, TLC

VARIABLES
  store,      \* the committed contents of the database `db`
  last,       \* the request served most recently, the response it got and the
              \* store as it was when its handler took it up
  lastput,    \* the entity created most recently, while nothing was written since
  nreq        \* number of requests received so far

vars == <<store, last, lastput, nreq>>

----------------------------------------------------------------------------
(* Bounds *)

MaxId == 2          \* ids the store hands out per table
MaxRequests == 4    \* requests received in one behaviour

(* Program constants *)

max_name_len == 255
MinEmails == 1
MaxEmails == 10
ErrorStatus == 500

----------------------------------------------------------------------------
(* Strings *)

Run(c, n) == <<[c |-> c, n |-> n]>>
Empty == <<>>

RECURSIVE StrLen(_)
StrLen(s) == IF s = <<>> THEN 0 ELSE Head(s).n + StrLen(Tail(s))

IsSpace(r) == r.c = " "

LStrip(s) == IF s # <<>> /\ IsSpace(Head(s)) THEN Tail(s) ELSE s
RStrip(s) == IF s # <<>> /\ IsSpace(s[Len(s)]) THEN SubSeq(s, 1, Len(s) - 1) ELSE s

(* str.strip(): what pony's StrConverter does to a value (autostrip). *)
Strip(s) == RStrip(LStrip(s))

----------------------------------------------------------------------------
(* Outcomes of a piece of handler code: a value, or a raised exception. *)

Ok(v) == [raised |-> FALSE, ex |-> "", v |-> v]
Raise(ex) == [raised |-> TRUE, ex |-> ex, v |-> <<>>]

----------------------------------------------------------------------------
(* Validation *)

(* validate_email(e): the basic syntactic check, local-part@domain. *)
validate_email(e) == e.at /\ e.local # "" /\ e.domain # ""

IgnoresMaxEmails(emails) ==
  /\ emails.islist
  /\ Len(emails.items) >= MinEmails
  /\ \A i \in 1..Len(emails.items) : validate_email(emails.items[i])

validate_emails(emails) ==
  IF ~emails.islist THEN FALSE
  ELSE IF Len(emails.items) < MinEmails THEN FALSE
  ELSE IF Len(emails.items) > MaxEmails THEN FALSE
  ELSE \A i \in 1..Len(emails.items) : validate_email(emails.items[i])

(* Required(str, max_name_len): strip, length cap, then not empty. *)
RequiredStr(s) ==
  LET v == Strip(s) IN
  IF StrLen(v) > max_name_len THEN Raise("ValueError: value is too long")
  ELSE IF v = Empty THEN Raise("ValueError: attribute is required")
  ELSE Ok(v)

----------------------------------------------------------------------------
(* Entity schema *)

Models == {"Person", "Group", "AddressBook"}

A_id == <<"id">>
A_fname == <<"fname">>
A_lname == <<"lname">>
A_emails == <<"emails">>
A_name == <<"name">>
A_groups == <<"groups">>
A_members == <<"members">>
A_people == <<"people">>
A_address_books == <<"address", "books">>

(* The Set() attributes each entity declares. *)
SetAttrs(M) ==
  CASE M = "Person" -> {A_groups, A_address_books}
    [] M = "Group" -> {A_members, A_address_books}
    [] M = "AddressBook" -> {A_people, A_groups}

(* The Required() attributes each entity declares, and the primary key. *)
ScalarAttrs(M) ==
  CASE M = "Person" -> {A_id, A_fname, A_lname, A_emails}
    [] M = "Group" -> {A_id, A_name}
    [] M = "AddressBook" -> {A_id, A_name}

(* field.py_type: the entity on the other side of a Set() attribute. *)
py_type(M, f) ==
  CASE f = A_groups -> "Group"
    [] f = A_members -> "Person"
    [] f = A_people -> "Person"
    [] f = A_address_books -> "AddressBook"

(* Class attributes of an entity that are no declared attribute at all
   (db.Entity's own methods); hasattr() finds them too. *)
EntityMethods == {<<"select">>, <<"get">>}

hasattr(M, f) == f \in SetAttrs(M) \cup ScalarAttrs(M) \cup EntityMethods

----------------------------------------------------------------------------
(* The store.  tab[M] maps the ids of the rows of M to the rows; links is the
   content of the three many-to-many tables, a link being the set of the two
   entities it relates (each Set() attribute is one side of one of them);
   seq[M] is the AUTOINCREMENT counter of M's table. *)

Ref(M, id) == <<M, id>>

EmptyTable == [i \in {} |-> <<>>]

EmptyStore ==
  [tab |-> [M \in Models |-> EmptyTable],
   links |-> {},
   seq |-> [M \in Models |-> 0]]

Ids(st, M) == DOMAIN st.tab[M]

(* getattr(instance, field.name): the ids in a collection. *)
Collection(st, M, id, f) ==
  {j \in Ids(st, py_type(M, f)) : {Ref(M, id), Ref(py_type(M, f), j)} \in st.links}

(* The values a unique index of M sees in a row. *)
UniqueKey(M, row) ==
  IF M = "Person" THEN <<row.fname, row.lname>> ELSE <<row.name>>

----------------------------------------------------------------------------
(* Serialisation.  A Python value is an entity instance, a list, a dict or
   anything else (an atom). *)

Atom(a) == [t |-> "atom", a |-> a]
List(items) == [t |-> "list", items |-> items]
Dict(m) == [t |-> "dict", m |-> m]
Ent(M, id) == [t |-> "ent", model |-> M, id |-> id]

Min(S) == CHOOSE x \in S : \A y \in S : x <= y

RECURSIVE Sorted(_)
Sorted(S) == IF S = {} THEN <<>> ELSE <<Min(S)>> \o Sorted(S \ {Min(S)})

Map(f(_), seq) == [i \in 1..Len(seq) |-> f(seq[i])]

SwapsNames(st, M, id, f) ==
  CASE f = A_id -> Atom(id)
    [] f = A_fname -> Atom(st.tab[M][id].lname)
    [] f = A_lname -> Atom(st.tab[M][id].fname)
    [] f = A_name -> Atom(st.tab[M][id].name)
    [] f = A_emails -> List(Map(Atom, st.tab[M][id].emails.items))

(* The value to_dict gives a non-collection attribute. *)
ScalarValue(st, M, id, f) ==
  CASE f = A_id -> Atom(id)
    [] f = A_fname -> Atom(st.tab[M][id].fname)
    [] f = A_lname -> Atom(st.tab[M][id].lname)
    [] f = A_name -> Atom(st.tab[M][id].name)
    [] f = A_emails -> List(Map(Atom, st.tab[M][id].emails.items))

(* Entity.to_dict(with_collections=..., related_objects=False): collections,
   when included, are the sorted primary keys of the related objects. *)
to_dict(st, M, id, with_collections) ==
  Dict([f \in ScalarAttrs(M) \cup (IF with_collections THEN SetAttrs(M) ELSE {}) |->
          IF f \in ScalarAttrs(M) THEN ScalarValue(st, M, id, f)
          ELSE List(Map(Atom, Sorted(Collection(st, M, id, f))))])

RECURSIVE my_dict(_, _)
my_dict(st, e) ==
  CASE e.t = "ent" -> to_dict(st, e.model, e.id, FALSE)
    [] e.t = "list" -> List([i \in 1..Len(e.items) |-> my_dict(st, e.items[i])])
    [] e.t = "dict" -> Dict([k \in DOMAIN e.m |-> my_dict(st, e.m[k])])
    [] OTHER -> e

----------------------------------------------------------------------------
(* Responses *)

JsonResponse(body, status) == [kind |-> "json", status |-> status, body |-> body]

(* What a handler without a return statement hands back. *)
None == [kind |-> "none", status |-> 0, body |-> <<>>]

A_error == <<"error">>

json_error(message) == JsonResponse(Dict([k \in {A_error} |-> Atom(message)]), ErrorStatus)

(* What a handler did inside and around its db_session: whether it raised, the
   response it returned, and the state of the session when it was left. *)
Returned(resp, st) == [raised |-> FALSE, ex |-> "", resp |-> resp, st |-> st]
Raised(ex, st) == [raised |-> TRUE, ex |-> ex, resp |-> None, st |-> st]

(* with db_session: commit on normal exit, rollback on an exception. *)
db_session(st, o) == IF o.raised THEN st ELSE o.st

----------------------------------------------------------------------------
(* OhMyRestRouter handlers *)

get(st, M, id) ==
  IF id \notin Ids(st, M) THEN Raised("ObjectNotFound", st)
  ELSE Returned(JsonResponse(my_dict(st, to_dict(st, M, id, TRUE)), 200), st)

(* The entity constructor called on the payload: the attribute values after
   validation. *)
Instantiate(M, data) ==
  IF M = "Person" THEN
    LET fn == RequiredStr(data.fname)
        ln == RequiredStr(data.lname)
    IN IF fn.raised THEN fn
       ELSE IF ln.raised THEN ln
       ELSE IF ~validate_emails(data.emails) THEN Raise("ValueError: check failed")
       ELSE Ok([fname |-> fn.v, lname |-> ln.v, emails |-> data.emails])
  ELSE
    LET n == RequiredStr(data.name)
    IN IF n.raised THEN n ELSE Ok([name |-> n.v])

Insert(st, M, id, row) ==
  [st EXCEPT !.tab[M] = [i \in DOMAIN @ \cup {id} |-> IF i = id THEN row ELSE @[i]],
             !.seq[M] = id]

(* The unique index of M's table refuses the row. *)
Duplicate(st, M, row) ==
  \E i \in Ids(st, M) : UniqueKey(M, st.tab[M][i]) = UniqueKey(M, row)

NoUniqueIndex(st, M, row) == FALSE

IntegrityError(st, M, row) == Duplicate(st, M, row)

put(st, M, body) ==
  IF ~body.parses THEN Raised("JSONDecodeError", st)
  ELSE
    LET inst == Instantiate(M, body.data) IN
    IF inst.raised THEN Raised(inst.ex, st)
    ELSE
      LET id == st.seq[M] + 1
          pending == Insert(st, M, id, inst.v)
      IN IF IntegrityError(st, M, inst.v)
         THEN Raised("TransactionIntegrityError", pending)
         ELSE Returned(JsonResponse(to_dict(pending, M, id, TRUE), 200), pending)

(* The checks of add() that precede `await request.json()`. *)
add_check(M, field) ==
  IF ~hasattr(M, field) THEN Raise("no such field")
  ELSE IF field \notin SetAttrs(M) THEN Raise("AssertionError: we can add only to Set() field")
  ELSE Ok(py_type(M, field))

RejectsPresent(st, M, id, field, j) ==
  IF j \in Collection(st, M, id, field) THEN st.links \ {{Ref(M, id), Ref(py_type(M, field), j)}}
  ELSE st.links \cup {{Ref(M, id), Ref(py_type(M, field), j)}}

(* collection.add(item) *)
collection_add(st, M, id, field, j) ==
  st.links \cup {{Ref(M, id), Ref(py_type(M, field), j)}}

SkipsItemLookup(st, M, j) == TRUE

(* model[json_data['id']] finds the item. *)
ItemFound(st, M, j) == j \in Ids(st, M)

add(st, M, id, field, body) ==
  IF ~body.parses THEN Raised("JSONDecodeError", st)
  ELSE IF id \notin Ids(st, M) THEN Raised("ObjectNotFound", st)
  ELSE IF ~body.hasid THEN Raised("KeyError: 'id'", st)
  ELSE IF ~ItemFound(st, py_type(M, field), body.id) THEN Raised("ObjectNotFound", st)
  ELSE
    LET st2 == [st EXCEPT !.links = collection_add(st, M, id, field, body.id)]
    IN Returned(JsonResponse(my_dict(st2, to_dict(st2, M, id, TRUE)), 200), st2)

KeepsLinks(st, M, id) == st.links

(* Deleting an object clears its Set() attributes. *)
ClearLinks(st, M, id) == {l \in st.links : Ref(M, id) \notin l}

delete(st, M, id) ==
  IF id \notin Ids(st, M) THEN Raised("ObjectNotFound", st)
  ELSE
    LET st2 == [st EXCEPT !.tab[M] = [i \in DOMAIN @ \ {id} |-> @[i]],
                          !.links = ClearLinks(st, M, id)]
    IN Returned(None, st2)

----------------------------------------------------------------------------
(* Query endpoints.  A query parameter that is absent is read as Empty. *)

find_by_name(st, fname, lname) ==
  IF fname = Empty /\ lname = Empty THEN Raised("AssertionError: you need at least one parameter", st)
  ELSE
    LET hits == {i \in Ids(st, "Person") :
                   /\ (fname # Empty => st.tab["Person"][i].fname = fname)
                   /\ (lname # Empty => st.tab["Person"][i].lname = lname)}
    IN Returned(JsonResponse(
         List(Map(LAMBDA i : to_dict(st, "Person", i, TRUE), Sorted(hits))), 200), st)

find_by_email(st, q) ==
  IF ~q.present THEN Raised("KeyError: 'email'", st)
  ELSE
    LET hits == {i \in Ids(st, "Person") :
                   \E k \in 1..Len(st.tab["Person"][i].emails.items) :
                      st.tab["Person"][i].emails.items[k] = q.email}
    IN Returned(JsonResponse(
         List(Map(LAMBDA i : to_dict(st, "Person", i, TRUE), Sorted(hits))), 200), st)

----------------------------------------------------------------------------
(* Routing and the middleware *)

UrlName(M) ==
  CASE M = "Person" -> "person" [] M = "Group" -> "group" [] M = "AddressBook" -> "addressbook"

ModelOf(name) == CHOOSE M \in Models : UrlName(M) = name

(* The pattern [a-z]+ : one word of lower-case letters, so no "_". *)
LowerAlpha(seg) == Len(seg) = 1

(* The routes registered by OhMyRestRouter.__init__ and setup_app.  A request
   is [method, name, shape, id, field]: shape names the form of its path,
     "coll" /{name}    "item" /{name}/{id}    "addto" /{name}/{id}/addto/{field}
     "find" /person/find/    "find-by-email" /person/find-by-email/ *)
Resolve(req) ==
  CASE req.method = "GET" /\ req.shape = "item" -> "get"
    [] req.method = "PUT" /\ req.shape = "addto" /\ LowerAlpha(req.field) -> "add"
    [] req.method = "PUT" /\ req.shape = "coll" -> "put"
    [] req.method = "DELETE" /\ req.shape = "item" -> "delete"
    [] req.method = "GET" /\ req.shape = "find" /\ req.name = "person" -> "find_by_name"
    [] req.method = "GET" /\ req.shape = "find-by-email" /\ req.name = "person" -> "find_by_email"
    [] OTHER -> "no_route"

(* middleware_handler: the handler's response, or the envelope when it raised. *)
error_middleware(o) == IF o.raised THEN json_error(o.ex) ELSE o.resp

(* The application serving a request: it sends the response the middleware
   returned; when that is no response object the framework itself fails the
   request, outside the middleware and so never with the envelope. *)
Serve(o) ==
  LET r == error_middleware(o) IN
  IF r.kind = "none" THEN [kind |-> "server_error", status |-> ErrorStatus, body |-> <<>>]
  ELSE r

----------------------------------------------------------------------------
(* Inputs *)

Rep(x, n) == [i \in 1..n |-> x]

Email(local, domain) == [local |-> local, at |-> TRUE, domain |-> domain]
Ada == Email("ada", "example.com")
Bob == Email("bob", "example.com")
NotAnEmail == [local |-> "not-an-email", at |-> FALSE, domain |-> ""]

JsonList(items) == [islist |-> TRUE, items |-> items]
JsonString(e) == [islist |-> FALSE, items |-> <<e>>]

GoodEmails == {JsonList(<<Ada>>), JsonList(Rep(Bob, MaxEmails))}
BadEmails ==
  {JsonString(Ada), JsonList(<<>>), JsonList(<<Ada, NotAnEmail>>),
   JsonList(Rep(Bob, MaxEmails + 1))}

OddNames == {Empty, Run(" ", 1) \o Run("a", 1), Run("a", max_name_len + 1)}
GroupNames == {Run("g", 1), Run("h", 1), Empty}

Person(f, l, e) == [fname |-> f, lname |-> l, emails |-> e]

(* Payloads that pass validation, two of them with the same name pair; then
   one of them with each of its values replaced by an unusual one. *)
GoodPersonData ==
  {Person(Run("a", 1), Run("x", 1), JsonList(<<Ada>>)),
   Person(Run("a", 1), Run("x", 1), JsonList(Rep(Bob, MaxEmails))),
   Person(Run("a", max_name_len), Run("y", 1), JsonList(<<Ada, Bob>>))}

PersonData ==
  GoodPersonData
  \cup {Person(Run("a", 1), Run("x", 1), e) : e \in BadEmails}
  \cup {Person(f, Run("x", 1), JsonList(<<Ada>>)) : f \in OddNames}
  \cup {Person(Run("a", 1), Empty, JsonList(<<Ada>>))}

Payloads(M) ==
  IF M = "Person" THEN PersonData ELSE {[name |-> n] : n \in GroupNames}

Unparsable == [parses |-> FALSE]

PutBodies(M) == {[parses |-> TRUE, data |-> d] : d \in Payloads(M)} \cup {Unparsable}

AddBodies ==
  {[parses |-> TRUE, hasid |-> TRUE, id |-> j] : j \in 1..MaxId}
  \cup {[parses |-> TRUE, hasid |-> FALSE, id |-> 0], [parses |-> FALSE, hasid |-> FALSE, id |-> 0]}

FnameParams == {Empty, Run("a", 1)}
LnameParams == {Empty, Run("x", 1)}
EmailParams == {[present |-> FALSE, email |-> Ada], [present |-> TRUE, email |-> Ada],
                [present |-> TRUE, email |-> Bob]}

NoField == <<>>
NoBody == [parses |-> FALSE, hasid |-> FALSE, id |-> -1]

Req(method, M, shape, id, field) ==
  [method |-> method, name |-> UrlName(M), shape |-> shape, id |-> id, field |-> field]

NoReq == [method |-> "", name |-> "", shape |-> "", id |-> 0, field |-> NoField]

(* PUT /{name}/{id}/addto/{field} for every Set() attribute of every entity,
   and for an attribute that is no Set() and a name that is no attribute. *)
AddRequests ==
  UNION {{Req("PUT", M, "addto", id, f) : id \in 1..MaxId, f \in SetAttrs(M)} : M \in Models}
  \cup {Req("PUT", M, "addto", 1, f) : M \in Models, f \in {A_id, <<"nosuch">>}}

(* Requests that may or may not match a route. *)
OtherRequests ==
  AddRequests \cup {Req("GET", M, "coll", 0, NoField) : M \in Models}

----------------------------------------------------------------------------
(* State.  A handler touches the store only inside its db_session block, and
   no db_session block contains an await: the block runs without another
   request's code in between.  What precedes it (the route arguments, the
   checks of add(), `await request.json()`) reads nothing a request can change.
   So each request is one step, taken when its handler enters db_session, and
   requests served concurrently are steps in the order of their blocks. *)

NoPut == [set |-> FALSE]

Init ==
  /\ store = EmptyStore
  /\ last = [h |-> "none", req |-> NoReq, body |-> NoBody, raised |-> FALSE,
             resp |-> None, before |-> EmptyStore]
  /\ lastput = NoPut
  /\ nreq = 0

(* A request is accepted. *)
Accept == nreq < MaxRequests /\ nreq' = nreq + 1

(* The handler of req ran to its end with outcome o, having read body. *)
Finish(h, req, body, o) ==
  /\ store' = db_session(store, o)
  /\ last' = [h |-> h, req |-> req, body |-> body, raised |-> o.raised,
              resp |-> Serve(o), before |-> store]
  /\ lastput' = IF h = "put" /\ ~o.raised
                THEN [set |-> TRUE, model |-> ModelOf(req.name),
                      id |-> o.st.seq[ModelOf(req.name)], data |-> body.data]
                ELSE IF store' # store THEN NoPut ELSE lastput

Get(M, id) ==
  LET req == Req("GET", M, "item", id, NoField) IN
  /\ Accept
  /\ Resolve(req) = "get"
  /\ Finish("get", req, NoBody, get(store, M, id))

Put(M, body) ==
  LET req == Req("PUT", M, "coll", 0, NoField)
      o == put(store, M, body)
  IN /\ Accept
     /\ Resolve(req) = "put"
     /\ body \in PutBodies(M)
     /\ o.raised \/ store.seq[M] < MaxId
     /\ Finish("put", req, body, o)

(* add(): its checks, and when they pass the body and the db_session. *)
Add(req, body) ==
  LET M == ModelOf(req.name)
      chk == add_check(M, req.field)
  IN /\ Accept
     /\ Resolve(req) = "add"
     /\ IF chk.raised
        THEN body = NoBody /\ Finish("add", req, NoBody, Raised(chk.ex, store))
        ELSE body \in AddBodies
             /\ Finish("add", req, body, add(store, M, req.id, req.field, body))

Delete(M, id) ==
  LET req == Req("DELETE", M, "item", id, NoField) IN
  /\ Accept
  /\ Resolve(req) = "delete"
  /\ Finish("delete", req, NoBody, delete(store, M, id))

FindByName(fname, lname) ==
  LET req == Req("GET", "Person", "find", 0, NoField) IN
  /\ Accept
  /\ Resolve(req) = "find_by_name"
  /\ Finish("find_by_name", req, [fname |-> fname, lname |-> lname],
            find_by_name(store, fname, lname))

FindByEmail(q) ==
  LET req == Req("GET", "Person", "find-by-email", 0, NoField) IN
  /\ Accept
  /\ Resolve(req) = "find_by_email"
  /\ Finish("find_by_email", req, q, find_by_email(store, q))

(* No route matches: the router's own handler raises the HTTP error, inside
   the middleware like any handler. *)
NoRoute(req) ==
  /\ Accept
  /\ Resolve(req) = "no_route"
  /\ Finish("no_route", req, NoBody, Raised("Not Found", store))

Next ==
  \/ \E M \in Models, id \in 1..MaxId : Get(M, id)
  \/ \E M \in Models : \E body \in PutBodies(M) : Put(M, body)
  \/ \E req \in AddRequests, body \in AddBodies \cup {NoBody} : Add(req, body)
  \/ \E M \in Models, id \in 1..MaxId : Delete(M, id)
  \/ \E f \in FnameParams, l \in LnameParams : FindByName(f, l)
  \/ \E q \in EmailParams : FindByEmail(q)
  \/ \E req \in OtherRequests : NoRoute(req)

Spec == Init /\ [][Next]_vars

----------------------------------------------------------------------------
(* Vocabulary of the properties.  In every state `store` is the store as the
   request recorded in `last` left it, and last.before the store it found. *)

Served == last.h # "none"
LastModel == ModelOf(last.req.name)

IsEnvelope(r) ==
  /\ r.kind = "json"
  /\ r.status = 500
  /\ r.body.t = "dict"
  /\ DOMAIN r.body.m = {A_error}

IsSuccess(r) == r.kind = "json" /\ r.status = 200 /\ ~IsEnvelope(r)

NamePair(row) == <<row.fname, row.lname>>

PeopleNamed(st, pair) == {i \in Ids(st, "Person") : NamePair(st.tab["Person"][i]) = pair}

Occurrences(seq, x) == Cardinality({i \in 1..Len(seq) : seq[i] = x})

CreatedPerson == Served /\ last.h = "put" /\ last.req.name = "person" /\ last.body.parses

(* C1: no two Persons share (fname, lname), no two Groups a name, no two
   AddressBooks a name; and a Create whose payload repeats the name pair of a
   Person in the store fails, the store still holding exactly one such
   Person. *)
C1_Unique ==
  /\ \A M \in Models : \A i, j \in Ids(store, M) :
       UniqueKey(M, store.tab[M][i]) = UniqueKey(M, store.tab[M][j]) => i = j
  /\ (CreatedPerson /\ PeopleNamed(last.before, NamePair(last.body.data)) # {})
       => /\ last.raised
          /\ IsEnvelope(last.resp)
          /\ Cardinality(PeopleNamed(store, NamePair(last.body.data))) = 1

C1_Witness ==
  /\ CreatedPerson
  /\ PeopleNamed(last.before, NamePair(last.body.data)) # {}
  /\ last.raised
  /\ \E M \in Models : Cardinality(Ids(store, M)) = 2

----------------------------------------------------------------------------
(* The emails of a payload are 1 to 10 well-formed addresses. *)
EmailsValid(e) ==
  /\ e.islist
  /\ Len(e.items) \in 1..10
  /\ \A i \in 1..Len(e.items) : validate_email(e.items[i])

(* The body a Get of a Person returns shows the payload d and no relations. *)
ShowsPayload(body, d) ==
  /\ body.t = "dict"
  /\ body.m[A_fname] = Atom(d.fname)
  /\ body.m[A_lname] = Atom(d.lname)
  /\ body.m[A_emails] = List(Map(Atom, d.emails.items))
  /\ body.m[A_groups] = List(<<>>)
  /\ body.m[A_address_books] = List(<<>>)

(* Create succeeded with an id the store had not held, and Get shows d. *)
CreateThenGet(d) ==
  /\ ~last.raised
  /\ IsSuccess(last.resp)
  /\ LET id == last.resp.body.m[A_id].a IN
       /\ id \notin Ids(last.before, "Person")
       /\ id \in Ids(store, "Person")
       /\ lastput = [set |-> TRUE, model |-> "Person", id |-> id, data |-> d]
       /\ ~get(store, "Person", id).raised
       /\ ShowsPayload(get(store, "Person", id).resp.body, d)

(* The Get served last asked for the entity created last, nothing having been
   written in between. *)
GotCreatedPerson ==
  /\ Served /\ last.h = "get" /\ last.req.name = "person"
  /\ lastput.set /\ lastput.model = "Person" /\ lastput.id = last.req.id

NamesAsClaimed(d) == StrLen(d.fname) <= 255 /\ StrLen(d.lname) <= 255

NamesAmended(d) ==
  /\ StrLen(d.fname) \in 1..255 /\ Strip(d.fname) = d.fname
  /\ StrLen(d.lname) \in 1..255 /\ Strip(d.lname) = d.lname

(* C2 as stated: every Person payload with 1 to 10 valid emails, names of at
   most 255 characters and a name pair not in the store is created, and a Get
   on its id before any other write returns the payload's fname, lname and
   emails with empty groups and address_books. *)
C2_AsStated ==
  /\ (CreatedPerson /\ EmailsValid(last.body.data.emails) /\ NamesAsClaimed(last.body.data)
        /\ PeopleNamed(last.before, NamePair(last.body.data)) = {})
       => CreateThenGet(last.body.data)
  /\ (GotCreatedPerson /\ NamesAsClaimed(lastput.data))
       => ~last.raised /\ IsSuccess(last.resp) /\ ShowsPayload(last.resp.body, lastput.data)

(* C2, amended: the same for payloads whose names have 1 to 255 characters and
   neither begin nor end with white space. *)
C2_RoundTrip ==
  /\ (CreatedPerson /\ EmailsValid(last.body.data.emails) /\ NamesAmended(last.body.data)
        /\ PeopleNamed(last.before, NamePair(last.body.data)) = {})
       => CreateThenGet(last.body.data)
  /\ (GotCreatedPerson /\ NamesAmended(lastput.data))
       => ~last.raised /\ IsSuccess(last.resp) /\ ShowsPayload(last.resp.body, lastput.data)

C2_Witness ==
  /\ GotCreatedPerson
  /\ NamesAmended(lastput.data)
  /\ StrLen(lastput.data.fname) = 255
  /\ IsSuccess(last.resp)

----------------------------------------------------------------------------
EmailsRejectable(e) ==
  \/ ~e.islist
  \/ Len(e.items) = 0
  \/ Len(e.items) > 10
  \/ \E i \in 1..Len(e.items) : ~validate_email(e.items[i])

(* C3: a Create of a Person whose emails are no list, an empty list, more than
   10 elements or hold a malformed address fails with an error response and
   leaves the store as it was: no Person and no id appears. *)
C3_BadEmailsRejected ==
  (CreatedPerson /\ EmailsRejectable(last.body.data.emails))
    => /\ last.raised
       /\ IsEnvelope(last.resp)
       /\ store = last.before

C3_Witness ==
  /\ CreatedPerson
  /\ last.body.data.emails.islist
  /\ Len(last.body.data.emails.items) > 10
  /\ IsEnvelope(last.resp)
  /\ Ids(store, "Person") # {}

----------------------------------------------------------------------------
(* The add handler was served with a body naming item id j. *)
AddedItem ==
  /\ Served /\ last.h = "add" /\ last.body.parses /\ last.body.hasid
  /\ last.req.id \in Ids(last.before, LastModel)

ItemModel == py_type(LastModel, last.req.field)

(* C4: AddToCollection of an item the collection already holds (as after a
   first call) succeeds, leaves the store as the first call left it, and the
   collection shows the item exactly once. *)
C4_AddIdempotent ==
  (AddedItem /\ last.body.id \in Collection(last.before, LastModel, last.req.id, last.req.field))
    => /\ ~last.raised
       /\ IsSuccess(last.resp)
       /\ store = last.before
       /\ Occurrences(last.resp.body.m[last.req.field].items, Atom(last.body.id)) = 1
       /\ Occurrences(Sorted(Collection(store, LastModel, last.req.id, last.req.field)),
                      last.body.id) = 1

C4_Witness ==
  /\ AddedItem
  /\ last.body.id \in Collection(last.before, LastModel, last.req.id, last.req.field)
  /\ IsSuccess(last.resp)

(* C5: AddToCollection on an existing parent with an item id absent from the
   related table fails with an error response, and no relationship collection
   of any entity changes. *)
C5_MissingItemRejected ==
  (AddedItem /\ last.body.id \notin Ids(last.before, ItemModel))
    => /\ last.raised
       /\ IsEnvelope(last.resp)
       /\ store.links = last.before.links
       /\ \A M \in Models : \A i \in Ids(store, M) : \A f \in SetAttrs(M) :
            Collection(store, M, i, f) = Collection(last.before, M, i, f)
       /\ store = last.before

C5_Witness ==
  /\ AddedItem
  /\ last.body.id \notin Ids(last.before, ItemModel)
  /\ Ids(last.before, ItemModel) # {}
  /\ IsEnvelope(last.resp)

----------------------------------------------------------------------------
DeletedExisting ==
  /\ Served /\ last.h = "delete"
  /\ last.req.id \in Ids(last.before, LastModel)

(* C6: every member of every relationship collection is an existing entity;
   after Delete of an existing entity it is absent, a Get on its id fails with
   NotFound, no collection holds it, and every other entity and every
   relation among the others is still there. *)
C6_DeleteClean ==
  /\ \A l \in store.links : \A r \in l : r[2] \in Ids(store, r[1])
  /\ DeletedExisting
       => /\ last.req.id \notin Ids(store, LastModel)
          /\ get(store, LastModel, last.req.id).raised
          /\ get(store, LastModel, last.req.id).ex = "ObjectNotFound"
          /\ \A l \in store.links : Ref(LastModel, last.req.id) \notin l
          /\ \A M \in Models : \A i \in Ids(last.before, M) :
               Ref(M, i) # Ref(LastModel, last.req.id)
                 => i \in Ids(store, M) /\ store.tab[M][i] = last.before.tab[M][i]
          /\ \A l \in last.before.links :
               Ref(LastModel, last.req.id) \notin l => l \in store.links
  /\ (Served /\ last.h = "get" /\ last.req.id \notin Ids(last.before, LastModel))
       => last.raised /\ IsEnvelope(last.resp)

C6_Witness ==
  /\ DeletedExisting
  /\ \E l \in last.before.links : Ref(LastModel, last.req.id) \in l
  /\ last.req.id \notin Ids(store, LastModel)

----------------------------------------------------------------------------
(* C7: the response of Get and of AddToCollection shows every relationship
   collection as a list of expanded objects, not of bare ids. *)
C7_CollectionsExpanded ==
  (Served /\ last.h \in {"get", "add"} /\ ~last.raised)
    => \A f \in SetAttrs(LastModel) :
         /\ last.resp.body.m[f].t = "list"
         /\ \A i \in 1..Len(last.resp.body.m[f].items) :
              last.resp.body.m[f].items[i].t = "dict"

(* C8: a PUT to /{name}/{id}/addto/{field}, field any relationship field the
   entity declares, is dispatched to AddToCollection and, parent and item
   existing, succeeds and leaves the item in the collection. *)
C8_EveryFieldAddable ==
  (Served /\ last.req.method = "PUT" /\ last.req.shape = "addto"
     /\ last.req.field \in SetAttrs(LastModel)
     /\ last.req.id \in Ids(last.before, LastModel)
     /\ Ids(last.before, ItemModel) # {})
    => /\ last.h = "add"
       /\ (AddedItem /\ last.body.id \in Ids(last.before, ItemModel))
            => /\ IsSuccess(last.resp)
               /\ last.body.id \in Collection(store, LastModel, last.req.id, last.req.field)

(* C9: a request whose handling raised is answered with the envelope
   {"error": message} at status 500, and every other request with a normal
   response: no failure reaches the caller in another form. *)
C9_UniformErrors ==
  Served => /\ last.raised => IsEnvelope(last.resp)
            /\ ~last.raised => IsSuccess(last.resp)

(* C10: a request that ends in an error response leaves the store exactly as
   if it had not run. *)
C10_ErrorMeansNoWrite ==
  (Served /\ ~IsSuccess(last.resp)) => store = last.before

====
